---- MODULE Spec2Model ----
(***************************************************************************)
(* Model of HTSeq/scripts/count_with_barcodes.py: the per-record scan of   *)
(* count_reads_with_barcodes (classification, overlap resolution, barcode  *)
(* aggregation) and the UMI collapse that follows it.                      *)
(***************************************************************************)
EXTENDS Integers, Sequences, FiniteSets, TLC

VARIABLES cfg, pe_mode, counts, i, r, pc, path, cbs, counts_noumi, nunits,
          inserted, samoutfile, written

vars == <<cfg, pe_mode, counts, i, r, pc, path, cbs, counts_noumi, nunits,
          inserted, samoutfile, written>>

(* ------------------------------ bounds -------------------------------- *)

\* Longest input stream of the specification Spec.
MaxUnits == 2

(* --------------------------- program constants ------------------------ *)

\* Python's None (a missing cell barcode or UMI).
None == "<None>"

\* CIGAR match characters.
com == {"M", "=", "X"}

\* Default minimum mapping quality (-a / --minaqual).
minaqual == 10

\* Default barcode tags (--cell-barcode, --UMI).
cb_tag == "CB"
ub_tag == "UB"

not_aligned == "__not_aligned"
alignment_not_unique == "__alignment_not_unique"
too_low_aQual == "__too_low_aQual"
no_feature == "__no_feature"
ambiguous == "__ambiguous"

other_features ==
    {no_feature, ambiguous, too_low_aQual, not_aligned, alignment_not_unique}

(* ----------------------------- feature index -------------------------- *)

\* The annotation the index is built from: feature id, chromosome,
\* half-open interval and strand.
GFF ==
    { [id |-> "GeneA", chrom |-> "chr1", start |-> 1, end |-> 3, strand |-> "+"],
      [id |-> "GeneB", chrom |-> "chr1", start |-> 2, end |-> 4, strand |-> "+"],
      [id |-> "GeneC", chrom |-> "chr1", start |-> 3, end |-> 4, strand |-> "-"] }

feature_attr == { f.id : f \in GFF }

\* features.chrom_vectors: the chromosomes the index knows.
chrom_vectors == { f.chrom : f \in GFF }

\* The set stored at one position of the GenomicArrayOfSets; the array is
\* stranded iff stranded != "no".
FeaturesAt(stranded, chrom, strand, pos) ==
    { f.id : f \in { g \in GFF : /\ g.chrom = chrom
                                 /\ g.start <= pos /\ pos < g.end
                                 /\ (stranded = "no" \/ g.strand = strand) } }

\* features[iv].steps(): the feature sets of the maximal runs of equal value
\* that cover iv, in order.
RECURSIVE StepsFrom(_, _, _)
StepsFrom(stranded, iv, pos) ==
    IF pos >= iv.end THEN <<>>
    ELSE LET here == FeaturesAt(stranded, iv.chrom, iv.strand, pos)
             rest == StepsFrom(stranded, iv, pos + 1)
         IN IF rest # <<>> /\ Head(rest) = here THEN rest
            ELSE <<here>> \o rest

steps(stranded, iv) == StepsFrom(stranded, iv, iv.start)

(* ------------------------------- records ------------------------------ *)

\* A mate that is absent from a pair (None in the tuple).
NoRead ==
    [isNone |-> TRUE, aligned |-> FALSE, not_primary_alignment |-> FALSE,
     supplementary |-> FALSE, aQual |-> 0, cigar |-> <<>>,
     optional_fields |-> <<>>]

IsRead(read) == ~read.isNone

\* Reference intervals of alignment records always carry strand "+" or "-",
\* so the ValueError branch ("Illegal strand") is never taken.
invert_strand(iv) ==
    [iv EXCEPT !.strand = IF iv.strand = "+" THEN "-"
                          ELSE IF iv.strand = "-" THEN "+"
                          ELSE "Illegal strand"]

\* read.optional_field(tag) raises KeyError when the tag is missing.
HasField(read, tag) ==
    \E k \in 1..Len(read.optional_fields) : read.optional_fields[k].tag = tag

optional_field(read, tag) ==
    LET k == CHOOSE k \in 1..Len(read.optional_fields) :
                 /\ read.optional_fields[k].tag = tag
                 /\ \A j \in 1..(k - 1) : read.optional_fields[j].tag # tag
    IN read.optional_fields[k].val

(* -------------------------- barcode extraction ------------------------ *)

\* The optional fields visited by the two nested loops of identify_barcodes:
\* those of every present read of the unit, in order.
RECURSIVE FieldsOf(_)
FieldsOf(u) ==
    IF u = <<>> THEN <<>>
    ELSE (IF IsRead(Head(u)) THEN Head(u).optional_fields ELSE <<>>)
         \o FieldsOf(Tail(u))

\* The scan of identify_barcodes: every hit of either tag bumps nbar, and
\* the scan returns as soon as nbar reaches 2.
RECURSIVE ScanBarcodes(_, _, _)
ScanBarcodes(fields, barcodes, nbar) ==
    IF fields = <<>> THEN barcodes
    ELSE LET f == Head(fields)
         IN IF f.tag = cb_tag
            THEN IF nbar + 1 = 2 THEN <<f.val, barcodes[2]>>
                 ELSE ScanBarcodes(Tail(fields), <<f.val, barcodes[2]>>, nbar + 1)
            ELSE IF f.tag = ub_tag
            THEN IF nbar + 1 = 2 THEN <<barcodes[1], f.val>>
                 ELSE ScanBarcodes(Tail(fields), <<barcodes[1], f.val>>, nbar + 1)
            ELSE ScanBarcodes(Tail(fields), barcodes, nbar)

identify_barcodes(u) == ScanBarcodes(FieldsOf(u), <<None, None>>, 0)

(* --------------------------- interval extraction ---------------------- *)

\* (co.ref_iv for co in cigar if co.type in com and co.size > 0), each
\* interval inverted when inv holds.
RECURSIVE MatchIvs(_, _)
MatchIvs(cigar, inv) ==
    IF cigar = <<>> THEN <<>>
    ELSE LET co == Head(cigar)
         IN (IF co.type \in com /\ co.size > 0
             THEN <<IF inv THEN invert_strand(co.ref_iv) ELSE co.ref_iv>>
             ELSE <<>>)
            \o MatchIvs(Tail(cigar), inv)

\* iv_seq of a single-end record.
IvSeqSE(stranded, read) == MatchIvs(read.cigar, stranded = "reverse")

\* Mutant of IvSeqPE: mate 2 is treated as mate 1 is (inverted when
\* stranded is "reverse").
IvSeqPE_Mate2AsMate1(stranded, u) ==
    (IF IsRead(u[1]) /\ u[1].aligned
     THEN MatchIvs(u[1].cigar, stranded = "reverse") ELSE <<>>)
    \o
    (IF IsRead(u[2]) /\ u[2].aligned
     THEN MatchIvs(u[2].cigar, stranded = "reverse") ELSE <<>>)

\* iv_seq of a pair: mate 1 as for single-end, mate 2 the other way round.
IvSeqPE(stranded, u) ==
    (IF IsRead(u[1]) /\ u[1].aligned
     THEN MatchIvs(u[1].cigar, stranded = "reverse") ELSE <<>>)
    \o
    (IF IsRead(u[2]) /\ u[2].aligned
     THEN MatchIvs(u[2].cigar, stranded # "reverse") ELSE <<>>)

(* ----------------------------- overlap resolver ----------------------- *)

\* The accumulator fs: None, or a set of feature ids.
FsNone == [isNone |-> TRUE, set |-> {}]
FsSet(S) == [isNone |-> FALSE, set |-> S]

\* Mutant of UnionSteps: "fs = fs2" in place of "fs = fs.union(fs2)".
RECURSIVE UnionSteps_Overwrite(_, _)
UnionSteps_Overwrite(st, fs) ==
    IF st = <<>> THEN fs
    ELSE UnionSteps_Overwrite(Tail(st), FsSet(Head(st)))

\* "for iv2, fs2 in features[iv].steps(): fs = fs.union(fs2)"
RECURSIVE UnionSteps(_, _)
UnionSteps(st, fs) ==
    IF st = <<>> THEN fs
    ELSE UnionSteps(Tail(st), FsSet(fs.set \cup Head(st)))

\* Mutant of IntersectSteps: the test names the other intersection mode, so
\* "intersection-nonempty" folds the empty sets in and
\* "intersection-strict" skips them.
RECURSIVE IntersectSteps_OtherMode(_, _, _)
IntersectSteps_OtherMode(overlap_mode, st, fs) ==
    IF st = <<>> THEN fs
    ELSE LET fs2 == Head(st)
         IN IF Cardinality(fs2) > 0 \/ overlap_mode = "intersection-nonempty"
            THEN IntersectSteps_OtherMode(overlap_mode, Tail(st),
                                          IF fs.isNone THEN FsSet(fs2)
                                          ELSE FsSet(fs.set \cap fs2))
            ELSE IntersectSteps_OtherMode(overlap_mode, Tail(st), fs)

\* The inner loop of the two intersection modes.
RECURSIVE IntersectSteps(_, _, _)
IntersectSteps(overlap_mode, st, fs) ==
    IF st = <<>> THEN fs
    ELSE LET fs2 == Head(st)
         IN IF Cardinality(fs2) > 0 \/ overlap_mode = "intersection-strict"
            THEN IntersectSteps(overlap_mode, Tail(st),
                                IF fs.isNone THEN FsSet(fs2)
                                ELSE FsSet(fs.set \cap fs2))
            ELSE IntersectSteps(overlap_mode, Tail(st), fs)

\* Mutant of ResolveFrom: an interval on an unknown chromosome is skipped
\* ("continue" in place of "raise UnknownChrom").
RECURSIVE ResolveFrom_SkipUnknown(_, _, _, _)
ResolveFrom_SkipUnknown(stranded, overlap_mode, ivs, fs) ==
    IF ivs = <<>> THEN [unknown |-> FALSE, fs |-> fs]
    ELSE LET iv == Head(ivs)
         IN IF iv.chrom \notin chrom_vectors
            THEN ResolveFrom_SkipUnknown(stranded, overlap_mode, Tail(ivs), fs)
            ELSE ResolveFrom_SkipUnknown(stranded, overlap_mode, Tail(ivs),
                     IF overlap_mode = "union"
                     THEN UnionSteps(steps(stranded, iv), fs)
                     ELSE IntersectSteps(overlap_mode, steps(stranded, iv), fs))

\* The loop over iv_seq; an interval on a chromosome missing from
\* chrom_vectors raises UnknownChrom and abandons the accumulator.
RECURSIVE ResolveFrom(_, _, _, _)
ResolveFrom(stranded, overlap_mode, ivs, fs) ==
    IF ivs = <<>> THEN [unknown |-> FALSE, fs |-> fs]
    ELSE LET iv == Head(ivs)
         IN IF iv.chrom \notin chrom_vectors
            THEN [unknown |-> TRUE, fs |-> FsNone]
            ELSE ResolveFrom(stranded, overlap_mode, Tail(ivs),
                     IF overlap_mode = "union"
                     THEN UnionSteps(steps(stranded, iv), fs)
                     ELSE IntersectSteps(overlap_mode, steps(stranded, iv), fs))

Resolve(stranded, overlap_mode, ivs) ==
    ResolveFrom(stranded, overlap_mode, ivs,
                IF overlap_mode = "union" THEN FsSet({}) ELSE FsNone)

\* The orders in which list(fs) may enumerate a set.
ListsOf(S) ==
    { l \in [1..Cardinality(S) -> S] :
        \A a, b \in 1..Cardinality(S) : a # b => l[a] # l[b] }

(* ------------------------- per-record classification ------------------ *)

\* What the loop body does for one unit: the categories it increments in
\* counts[cb][ub], in order, and the way it leaves the iteration: by one of
\* the "continue" statements, by the end of the final decision
\* ("resolved"), by the UnknownChrom handler, or by sys.exit ("exit").
Result(incs, way) == [incs |-> incs, path |-> way]

\* Mutant of OverlapDecision: the test "len(fs) == 1" of the 'none' branch
\* is missing, so 'none' counts every member of fs as 'all' does.
OverlapDecision_NoLenTest(c, ivs, order) ==
    IF c.overlap_mode \notin {"union", "intersection-strict",
                              "intersection-nonempty"}
    THEN Result(<<>>, "exit")
    ELSE LET res == Resolve(c.stranded, c.overlap_mode, ivs)
             fs == res.fs
         IN IF res.unknown THEN Result(<<no_feature>>, "unknown_chrom")
            ELSE IF fs.isNone \/ Cardinality(fs.set) = 0
            THEN Result(<<no_feature>>, "resolved")
            ELSE LET audit == IF Cardinality(fs.set) > 1
                              THEN <<ambiguous>> ELSE <<>>
                 IN IF c.multimapped_mode \in {"none", "all"}
                    THEN Result(audit \o order, "resolved")
                    ELSE Result(audit, "exit")

\* Mutant of OverlapDecision: "len(fs) >= 1" in place of "len(fs) > 1", so
\* a single feature is audited as ambiguous too.
OverlapDecision_AmbiguousFromOne(c, ivs, order) ==
    IF c.overlap_mode \notin {"union", "intersection-strict",
                              "intersection-nonempty"}
    THEN Result(<<>>, "exit")
    ELSE LET res == Resolve(c.stranded, c.overlap_mode, ivs)
             fs == res.fs
         IN IF res.unknown THEN Result(<<no_feature>>, "unknown_chrom")
            ELSE IF fs.isNone \/ Cardinality(fs.set) = 0
            THEN Result(<<no_feature>>, "resolved")
            ELSE LET audit == <<ambiguous>>
                 IN IF c.multimapped_mode = "none"
                    THEN Result(audit \o (IF Cardinality(fs.set) = 1
                                          THEN order ELSE <<>>), "resolved")
                    ELSE IF c.multimapped_mode = "all"
                    THEN Result(audit \o order, "resolved")
                    ELSE Result(audit, "exit")

\* Lines 258-313: overlap resolution and the final decision.  order is the
\* enumeration list(fs) yields.
OverlapDecision(c, ivs, order) ==
    IF c.overlap_mode \notin {"union", "intersection-strict",
                              "intersection-nonempty"}
    THEN Result(<<>>, "exit")
    ELSE LET res == Resolve(c.stranded, c.overlap_mode, ivs)
             fs == res.fs
         IN IF res.unknown THEN Result(<<no_feature>>, "unknown_chrom")
            ELSE IF fs.isNone \/ Cardinality(fs.set) = 0
            THEN Result(<<no_feature>>, "resolved")
            ELSE LET audit == IF Cardinality(fs.set) > 1
                              THEN <<ambiguous>> ELSE <<>>
                 IN IF c.multimapped_mode = "none"
                    THEN Result(audit \o (IF Cardinality(fs.set) = 1
                                          THEN order ELSE <<>>), "resolved")
                    ELSE IF c.multimapped_mode = "all"
                    THEN Result(audit \o order, "resolved")
                    ELSE Result(audit, "exit")

\* The feature set whose enumeration order OverlapDecision depends on.
ResolvedSet(c, ivs) ==
    IF c.overlap_mode \notin {"union", "intersection-strict",
                              "intersection-nonempty"}
    THEN {}
    ELSE Resolve(c.stranded, c.overlap_mode, ivs).fs.set

\* "r.optional_field("NH") > 1" inside try / except KeyError.
NHAbove1SE(read) ==
    HasField(read, "NH") /\ optional_field(read, "NH") > 1

\* Lines 240-241 inside try / except KeyError: the operands are evaluated
\* left to right, and a KeyError raised by mate 1 leaves the whole test.
NHAbove1PE(u) ==
    IF IsRead(u[1]) /\ ~HasField(u[1], "NH") THEN FALSE
    ELSE IF IsRead(u[1]) /\ optional_field(u[1], "NH") > 1 THEN TRUE
    ELSE IF IsRead(u[2]) /\ ~HasField(u[2], "NH") THEN FALSE
    ELSE IsRead(u[2]) /\ optional_field(u[2], "NH") > 1

\* Mutant of ClassifySE: the supplementary filter (lines 173-175) is
\* missing.
ClassifySE_NoSupplementaryFilter(c, read, order) ==
    IF ~read.aligned THEN Result(<<not_aligned>>, "not_aligned")
    ELSE IF c.secondary_alignment_mode = "ignore" /\ read.not_primary_alignment
    THEN Result(<<>>, "secondary")
    ELSE LET nu == IF NHAbove1SE(read) THEN <<alignment_not_unique>> ELSE <<>>
         IN IF nu # <<>> /\ c.multimapped_mode = "none"
            THEN Result(nu, "multimapped")
            ELSE IF read.aQual < minaqual
            THEN Result(nu \o <<too_low_aQual>>, "too_low_aQual")
            ELSE LET d == OverlapDecision(c, IvSeqSE(c.stranded, read), order)
                 IN Result(nu \o d.incs, d.path)

\* Lines 163-200 followed by 258-313: a single-end record.
ClassifySE(c, read, order) ==
    IF ~read.aligned THEN Result(<<not_aligned>>, "not_aligned")
    ELSE IF c.secondary_alignment_mode = "ignore" /\ read.not_primary_alignment
    THEN Result(<<>>, "secondary")
    ELSE IF c.supplementary_alignment_mode = "ignore" /\ read.supplementary
    THEN Result(<<>>, "supplementary")
    ELSE LET nu == IF NHAbove1SE(read) THEN <<alignment_not_unique>> ELSE <<>>
         IN IF nu # <<>> /\ c.multimapped_mode = "none"
            THEN Result(nu, "multimapped")
            ELSE IF read.aQual < minaqual
            THEN Result(nu \o <<too_low_aQual>>, "too_low_aQual")
            ELSE LET d == OverlapDecision(c, IvSeqSE(c.stranded, read), order)
                 IN Result(nu \o d.incs, d.path)

\* Lines 202-256 followed by 258-313: a pair.
ClassifyPE(c, u, order) ==
    IF ~(IsRead(u[2]) /\ u[2].aligned) /\ (~IsRead(u[1]) \/ ~u[1].aligned)
    THEN Result(<<not_aligned>>, "not_aligned")
    ELSE IF /\ c.secondary_alignment_mode = "ignore"
            /\ \/ IsRead(u[1]) /\ u[1].not_primary_alignment
               \/ IsRead(u[2]) /\ u[2].not_primary_alignment
    THEN Result(<<>>, "secondary")
    ELSE IF /\ c.supplementary_alignment_mode = "ignore"
            /\ \/ IsRead(u[1]) /\ u[1].supplementary
               \/ IsRead(u[2]) /\ u[2].supplementary
    THEN Result(<<>>, "supplementary")
    ELSE LET nu == IF NHAbove1PE(u) THEN <<alignment_not_unique>> ELSE <<>>
         IN IF nu # <<>> /\ c.multimapped_mode = "none"
            THEN Result(nu, "multimapped")
            ELSE IF \/ IsRead(u[1]) /\ u[1].aQual < minaqual
                    \/ IsRead(u[2]) /\ u[2].aQual < minaqual
            THEN Result(nu \o <<too_low_aQual>>, "too_low_aQual")
            ELSE LET d == OverlapDecision(c, IvSeqPE(c.stranded, u), order)
                 IN Result(nu \o d.incs, d.path)

\* iv_seq of a unit, as the branch for its mode builds it.
IvSeq(c, pe, u) ==
    IF pe THEN IvSeqPE(c.stranded, u) ELSE IvSeqSE(c.stranded, u[1])

Classify(c, pe, u, order) ==
    IF pe THEN ClassifyPE(c, u, order) ELSE ClassifySE(c, u[1], order)

(* ---------------------------- annotation output ----------------------- *)

\* write_to_samout: nothing when no output file was asked for; otherwise
\* every present read of the unit is written with the assignment in its XF
\* field.  log holds the calls made for the unit: the assignment and the
\* number of reads written.
write_to_samout(log, u, assignment, file) ==
    IF file = None THEN log
    ELSE Append(log, [XF |-> assignment,
                      reads |-> Cardinality({ k \in 1..Len(u) : IsRead(u[k]) })])

\* '+'.join(fs): the members of fs in the order the set enumerates them.
RECURSIVE Join(_)
Join(order) ==
    IF Len(order) = 1 THEN order[1]
    ELSE order[1] \o "+" \o Join(Tail(order))

\* Mutant of WrittenDecision: the branch "fs is None or len(fs) == 0" counts
\* __no_feature without writing the unit.
WrittenDecision_SilentNoFeature(c, u, ivs, order, file, log) ==
    IF c.overlap_mode \notin {"union", "intersection-strict",
                              "intersection-nonempty"}
    THEN log
    ELSE LET res == Resolve(c.stranded, c.overlap_mode, ivs)
             fs == res.fs
         IN IF res.unknown THEN write_to_samout(log, u, no_feature, file)
            ELSE IF fs.isNone \/ Cardinality(fs.set) = 0
            THEN log
            ELSE IF Cardinality(fs.set) > 1
            THEN write_to_samout(log, u,
                                 "__ambiguous[" \o Join(order) \o "]", file)
            ELSE write_to_samout(log, u, order[1], file)

\* The calls of write_to_samout in lines 258-313, after those in log.
WrittenDecision(c, u, ivs, order, file, log) ==
    IF c.overlap_mode \notin {"union", "intersection-strict",
                              "intersection-nonempty"}
    THEN log
    ELSE LET res == Resolve(c.stranded, c.overlap_mode, ivs)
             fs == res.fs
         IN IF res.unknown THEN write_to_samout(log, u, no_feature, file)
            ELSE IF fs.isNone \/ Cardinality(fs.set) = 0
            THEN write_to_samout(log, u, no_feature, file)
            ELSE IF Cardinality(fs.set) > 1
            THEN write_to_samout(log, u,
                                 "__ambiguous[" \o Join(order) \o "]", file)
            ELSE write_to_samout(log, u, order[1], file)

\* The calls of write_to_samout for a single-end record, lines 163-313.
WrittenSE(c, u, order, file) ==
    LET read == u[1]
    IN IF ~read.aligned THEN write_to_samout(<<>>, u, not_aligned, file)
       ELSE IF c.secondary_alignment_mode = "ignore" /\ read.not_primary_alignment
       THEN <<>>
       ELSE IF c.supplementary_alignment_mode = "ignore" /\ read.supplementary
       THEN <<>>
       ELSE LET nu == IF NHAbove1SE(read)
                      THEN write_to_samout(<<>>, u, alignment_not_unique, file)
                      ELSE <<>>
            IN IF NHAbove1SE(read) /\ c.multimapped_mode = "none" THEN nu
               ELSE IF read.aQual < minaqual
               THEN write_to_samout(nu, u, too_low_aQual, file)
               ELSE WrittenDecision(c, u, IvSeqSE(c.stranded, read), order,
                                    file, nu)

\* The calls of write_to_samout for a pair, lines 202-313.
WrittenPE(c, u, order, file) ==
    IF ~(IsRead(u[2]) /\ u[2].aligned) /\ (~IsRead(u[1]) \/ ~u[1].aligned)
    THEN write_to_samout(<<>>, u, not_aligned, file)
    ELSE IF /\ c.secondary_alignment_mode = "ignore"
            /\ \/ IsRead(u[1]) /\ u[1].not_primary_alignment
               \/ IsRead(u[2]) /\ u[2].not_primary_alignment
    THEN <<>>
    ELSE IF /\ c.supplementary_alignment_mode = "ignore"
            /\ \/ IsRead(u[1]) /\ u[1].supplementary
               \/ IsRead(u[2]) /\ u[2].supplementary
    THEN <<>>
    ELSE LET nu == IF NHAbove1PE(u)
                   THEN write_to_samout(<<>>, u, alignment_not_unique, file)
                   ELSE <<>>
         IN IF NHAbove1PE(u) /\ c.multimapped_mode = "none" THEN nu
            ELSE IF \/ IsRead(u[1]) /\ u[1].aQual < minaqual
                    \/ IsRead(u[2]) /\ u[2].aQual < minaqual
            THEN write_to_samout(nu, u, too_low_aQual, file)
            ELSE WrittenDecision(c, u, IvSeqPE(c.stranded, u), order, file, nu)

Written(c, pe, u, order, file) ==
    IF pe THEN WrittenPE(c, u, order, file) ELSE WrittenSE(c, u, order, file)

(* ------------------------------ count table --------------------------- *)

\* Counter: the keys in insertion order with their counts.
CounterGet(ctr, k) ==
    IF \E j \in 1..Len(ctr) : ctr[j].k = k
    THEN ctr[CHOOSE j \in 1..Len(ctr) : ctr[j].k = k].n
    ELSE 0

\* Mutant of CounterInc: "= 1" in place of "+= 1".
CounterInc_Assign(ctr, k) ==
    IF \E j \in 1..Len(ctr) : ctr[j].k = k
    THEN [j \in 1..Len(ctr) |->
             IF ctr[j].k = k THEN [ctr[j] EXCEPT !.n = 1] ELSE ctr[j]]
    ELSE Append(ctr, [k |-> k, n |-> 1])

\* "ctr[k] += 1": a missing key reads as 0 and is inserted last.
CounterInc(ctr, k) ==
    IF \E j \in 1..Len(ctr) : ctr[j].k = k
    THEN [j \in 1..Len(ctr) |->
             IF ctr[j].k = k THEN [ctr[j] EXCEPT !.n = @ + 1] ELSE ctr[j]]
    ELSE Append(ctr, [k |-> k, n |-> 1])

CounterSum(ctr) ==
    LET RECURSIVE S(_)
        S(j) == IF j = 0 THEN 0 ELSE ctr[j].n + S(j - 1)
    IN S(Len(ctr))

\* defaultdict(lambda: defaultdict(Counter)): a missing key is created on
\* access.
EmptyTable == [x \in {} |-> <<>>]

Bucket(tbl, cb, ub) ==
    IF cb \in DOMAIN tbl /\ ub \in DOMAIN tbl[cb] THEN tbl[cb][ub] ELSE <<>>

\* "counts[cb][ub][cat] += 1"
Inc(tbl, cb, ub, cat) ==
    LET cell == IF cb \in DOMAIN tbl THEN tbl[cb] ELSE EmptyTable
        newcell == [x \in (DOMAIN cell) \cup {ub} |->
                       IF x = ub THEN CounterInc(Bucket(tbl, cb, ub), cat)
                       ELSE cell[x]]
    IN [x \in (DOMAIN tbl) \cup {cb} |-> IF x = cb THEN newcell ELSE tbl[x]]

\* Mutant of IncAll: the bucket counts[cb][ub] is looked up even when the
\* unit increments nothing, which creates it empty.
RECURSIVE IncAll_TouchesBucket(_, _, _, _)
IncAll_TouchesBucket(tbl, cb, ub, incs) ==
    IF incs = <<>>
    THEN LET cell == IF cb \in DOMAIN tbl THEN tbl[cb] ELSE EmptyTable
             newcell == [x \in (DOMAIN cell) \cup {ub} |->
                            IF x = ub THEN Bucket(tbl, cb, ub) ELSE cell[x]]
         IN [x \in (DOMAIN tbl) \cup {cb} |->
                IF x = cb THEN newcell ELSE tbl[x]]
    ELSE IncAll_TouchesBucket(Inc(tbl, cb, ub, Head(incs)), cb, ub, Tail(incs))

RECURSIVE IncAll(_, _, _, _)
IncAll(tbl, cb, ub, incs) ==
    IF incs = <<>> THEN tbl
    ELSE IncAll(Inc(tbl, cb, ub, Head(incs)), cb, ub, Tail(incs))

(* -------------------------------- collapse ---------------------------- *)

\* udic.most_common(1)[0][0]: the first key, in insertion order, that holds
\* the largest count.
\* Mutant of MaxFrom: ">=" in place of ">", so the last of the largest
\* counts wins.
RECURSIVE MaxFrom_LastWins(_, _, _)
MaxFrom_LastWins(ctr, j, best) ==
    IF j > Len(ctr) THEN best
    ELSE MaxFrom_LastWins(ctr, j + 1,
                          IF ctr[j].n >= ctr[best].n THEN j ELSE best)

RECURSIVE MaxFrom(_, _, _)
MaxFrom(ctr, j, best) ==
    IF j > Len(ctr) THEN best
    ELSE MaxFrom(ctr, j + 1, IF ctr[j].n > ctr[best].n THEN j ELSE best)

most_common1(ctr) == ctr[MaxFrom(ctr, 2, 1)].k

\* Cell barcodes of the input, in the order Python's string comparison
\* gives them.
CellOrder == <<"X", "Y">>

\* sorted(counts.keys()) raises TypeError when None has to be compared
\* with a string.
SortFails(keys) == None \in keys /\ keys # {None}

RECURSIVE SortedFrom(_, _)
SortedFrom(keys, order) ==
    IF order = <<>> THEN <<>>
    ELSE (IF Head(order) \in keys THEN <<Head(order)>> ELSE <<>>)
         \o SortedFrom(keys, Tail(order))

sorted(keys) == IF keys = {None} THEN <<None>> ELSE SortedFrom(keys, CellOrder)

\* Mutant of CollapseCell: the winner's count is added in place of 1.
CollapseCell_AddsCount(cell) ==
    LET winners == { most_common1(cell[ub]) : ub \in DOMAIN cell }
        RECURSIVE Total(_, _)
        Total(ubs, cat) ==
            IF ubs = {} THEN 0
            ELSE LET ub == CHOOSE x \in ubs : TRUE
                 IN (IF most_common1(cell[ub]) = cat
                     THEN CounterGet(cell[ub], cat) ELSE 0)
                    + Total(ubs \ {ub}, cat)
    IN [cat \in winners |-> Total(DOMAIN cell, cat)]

\* counts_cell of one cell: one increment of the winning category per umi.
CollapseCell(cell) ==
    LET winners == { most_common1(cell[ub]) : ub \in DOMAIN cell }
    IN [cat \in winners |->
           Cardinality({ ub \in DOMAIN cell : most_common1(cell[ub]) = cat })]

(* ------------------------------- state machine ------------------------ *)

\* Values of the mode options; "illegal" stands for any value the script
\* does not know.
OverlapModes == {"union", "intersection-strict", "intersection-nonempty",
                 "illegal"}
MultimappedModes == {"none", "all", "illegal"}
AlignmentModes == {"score", "ignore"}
StrandedModes == {"yes", "no", "reverse"}

Configs ==
    [stranded : StrandedModes, overlap_mode : OverlapModes,
     multimapped_mode : MultimappedModes,
     secondary_alignment_mode : AlignmentModes,
     supplementary_alignment_mode : AlignmentModes]

\* The mode values the script knows.
ValidModes(c) ==
    /\ c.overlap_mode \in {"union", "intersection-strict", "intersection-nonempty"}
    /\ c.multimapped_mode \in {"none", "all"}

\* A unit that the secondary / supplementary filter drops.
Discarded(c, pe, u) ==
    LET present == { k \in 1..Len(u) : IsRead(u[k]) }
    IN /\ \E k \in present : u[k].aligned
       /\ \/ /\ c.secondary_alignment_mode = "ignore"
             /\ \E k \in present : u[k].not_primary_alignment
          \/ /\ c.supplementary_alignment_mode = "ignore"
             /\ \E k \in present : u[k].supplementary

\* History of the scan: the categories of a bucket in the order in which
\* they were first incremented.
RECURSIVE FirstSeen(_, _)
FirstSeen(seen, incs) ==
    IF incs = <<>> THEN seen
    ELSE FirstSeen(IF \E j \in 1..Len(seen) : seen[j] = Head(incs)
                   THEN seen ELSE Append(seen, Head(incs)),
                   Tail(incs))

\* State after the setup of count_reads_with_barcodes (lines 88-151).
InitWith(C, PE, SO) ==
    /\ cfg \in C
    /\ pe_mode \in PE
    /\ samoutfile \in SO
    /\ written = <<>>
    /\ counts = EmptyTable
    /\ i = 0
    /\ r = <<>>
    /\ pc = "read"
    /\ path = "start"
    /\ cbs = <<>>
    /\ counts_noumi = EmptyTable
    /\ nunits = EmptyTable
    /\ inserted = EmptyTable

\* "for r in read_seq" hands over the next unit; "i += 1".
NextRecord(U, max) ==
    /\ pc = "read"
    /\ i < max
    /\ \E u \in U : r' = u
    /\ i' = i + 1
    /\ pc' = "body"
    /\ written' = <<>>
    /\ UNCHANGED <<cfg, pe_mode, counts, path, cbs, counts_noumi, nunits,
                   inserted, samoutfile>>

\* The loop body, lines 161-313, for the unit r.  r holds the unit only
\* while its iteration runs; nunits and inserted record the history of the
\* scan (units counted per barcode, order of first increments per bucket).
Body ==
    /\ pc = "body"
    /\ LET b == identify_barcodes(r)
       IN \E order \in ListsOf(ResolvedSet(cfg, IvSeq(cfg, pe_mode, r))) :
            LET out == Classify(cfg, pe_mode, r, order)
            IN /\ counts' = IncAll(counts, b[1], b[2], out.incs)
               /\ written' = Written(cfg, pe_mode, r, order, samoutfile)
               /\ pc' = IF out.path = "exit" THEN "error" ELSE "read"
               /\ path' = out.path
               /\ nunits' = IF Discarded(cfg, pe_mode, r) THEN nunits
                             ELSE [x \in (DOMAIN nunits) \cup {b} |->
                                     IF x \in DOMAIN nunits
                                     THEN nunits[x] + (IF x = b THEN 1 ELSE 0)
                                     ELSE 1]
               /\ inserted' = IF out.incs = <<>> THEN inserted
                               ELSE [x \in (DOMAIN inserted) \cup {b} |->
                                       IF x = b
                                       THEN FirstSeen(IF b \in DOMAIN inserted
                                                      THEN inserted[b] ELSE <<>>,
                                                      out.incs)
                                       ELSE inserted[x]]
    /\ r' = <<>>
    /\ UNCHANGED <<cfg, pe_mode, i, cbs, counts_noumi, samoutfile>>

\* The end of the stream: lines 321-342.  The output file is closed before
\* the cell barcodes are sorted.
Collapse ==
    /\ pc = "read"
    /\ samoutfile' = IF samoutfile = None THEN None ELSE "closed"
    /\ IF SortFails(DOMAIN counts)
       THEN /\ pc' = "error"
            /\ UNCHANGED <<counts, cbs, counts_noumi>>
       ELSE /\ pc' = "done"
            /\ cbs' = sorted(DOMAIN counts)
            /\ counts_noumi' = [cb \in DOMAIN counts |-> CollapseCell(counts[cb])]
            /\ counts' = EmptyTable
    /\ UNCHANGED <<cfg, pe_mode, i, r, path, nunits, inserted, written>>

(* --------------------------------- inputs ----------------------------- *)

Iv(chrom, start, end, strand) ==
    [chrom |-> chrom, start |-> start, end |-> end, strand |-> strand]

\* A CIGAR operation over the reference interval [start, end).
Op(type, size, iv) == [type |-> type, size |-> size, ref_iv |-> iv]

Match(chrom, start, end, strand) ==
    Op("M", end - start, Iv(chrom, start, end, strand))

Tag(tag, val) == [tag |-> tag, val |-> val]

\* An alignment record.
Rd(al, sec, sup, q, cg, fields) ==
    [isNone |-> FALSE, aligned |-> al, not_primary_alignment |-> sec,
     supplementary |-> sup, aQual |-> q,
     cigar |-> IF al THEN cg ELSE <<>>, optional_fields |-> fields]

\* Barcode tags of a record: cell and UMI, or none at all.
BarXU == <<Tag(cb_tag, "X"), Tag(ub_tag, "U")>>
BarXV == <<Tag(cb_tag, "X"), Tag(ub_tag, "V")>>
BarYU == <<Tag(cb_tag, "Y"), Tag(ub_tag, "U")>>

BarcodeFields == { <<>>, BarXU }

\* The NH tag of a record: missing, 1 or 2.
NHFields == { <<>>, <<Tag("NH", 1)>>, <<Tag("NH", 2)>> }

\* Mapping qualities below and above minaqual.
AQuals == {0, 30}

\* Alignments of a forward read over one feature, over two features, and
\* over a stretch without a feature followed by one feature.
Cigars ==
    { <<Match("chr1", 1, 2, "+")>>, <<Match("chr1", 2, 3, "+")>>,
      <<Match("chr1", 0, 2, "+")>> }

\* The mates of a pair: mate 1 over one feature, mate 2, on the other
\* strand, over one feature and then two.
Mate1Cigar == <<Match("chr1", 1, 2, "+")>>
Mate2Cigar == <<Match("chr1", 1, 3, "-")>>

\* Single-end records: every combination of the flags, NH and quality.
UnitsSE ==
    { <<Rd(al, sec, sup, q, cg, bar \o nh)>> :
        al \in BOOLEAN, sec \in BOOLEAN, sup \in BOOLEAN, q \in AQuals,
        cg \in Cigars, nh \in NHFields, bar \in BarcodeFields }

\* A mate: absent ("N"), present but unaligned ("U"), or aligned ("A").
Mate(kind, sec, sup, q, cg, fields) ==
    IF kind = "N" THEN NoRead
    ELSE Rd(kind = "A", sec, sup, q, cg, fields)

\* Pairs that vary which mates are present and aligned and what NH each
\* mate reports.
PairsPresence ==
    { <<Mate(k1, FALSE, FALSE, 30, Mate1Cigar, bar \o nh1),
        Mate(k2, FALSE, FALSE, 30, Mate2Cigar, bar \o nh2)>> :
        k1 \in {"N", "U", "A"}, k2 \in {"N", "U", "A"},
        nh1 \in NHFields, nh2 \in NHFields, bar \in BarcodeFields }
    \ { <<NoRead, NoRead>> }

\* Pairs of aligned mates that vary the flags, NH and quality of each mate.
PairsFlags ==
    { <<Rd(TRUE, f[1] = 1, f[2] = 1, IF f[3] = 1 THEN 0 ELSE 30,
           Mate1Cigar,
           bar \o (IF f[4] = 1 THEN <<Tag("NH", 2)>> ELSE <<>>)),
        Rd(TRUE, f[1] = 2, f[2] = 2, IF f[3] = 2 THEN 0 ELSE 30,
           Mate2Cigar,
           bar \o (IF f[4] = 2 THEN <<Tag("NH", 2)>> ELSE <<>>))>> :
        f \in [1..4 -> 0..2], bar \in { BarXU } }

\* Pairs without an aligned mate that carry flags, NH or a low quality.
PairsUnaligned ==
    { <<Mate(k[1], sec, sup, q, <<>>, bar \o nh),
        Mate(k[2], FALSE, FALSE, q, <<>>, bar)>> :
        k \in { <<"U", "U">>, <<"U", "N">> },
        sec \in BOOLEAN, sup \in BOOLEAN, q \in AQuals,
        nh \in { <<>>, <<Tag("NH", 2)>> }, bar \in { BarXU } }

UnitsPE == PairsPresence \cup PairsFlags \cup PairsUnaligned

Units == IF pe_mode THEN UnitsPE ELSE UnitsSE

\* The configurations with known mode values, for a stranded assay.
ScanConfigs == { c \in Configs : c.stranded = "yes" /\ ValidModes(c) }

\* The runs of Spec write no annotated output (no -o option).
Init == InitWith(ScanConfigs, BOOLEAN, {None})

(* Inputs of the overlap resolver: records and pairs that pass the filters *)
(* and differ in their CIGAR, under every configuration of the modes.      *)

\* Longest input stream of the specification SpecOverlap.
MaxResolved == 1

\* CIGAR operations: matches over stretches with zero, one and two features
\* and over mixed stretches, a match on a chromosome the annotation lacks,
\* a skipped region, an insertion and a match of size 0.
OverlapOps ==
    { Match("chr1", 0, 1, "+"), Match("chr1", 1, 2, "+"),
      Match("chr1", 2, 3, "+"), Match("chr1", 3, 4, "+"),
      Match("chr1", 0, 2, "+"), Match("chr1", 1, 4, "+"),
      Match("chr2", 0, 1, "+"),
      Op("N", 1, Iv("chr1", 2, 3, "+")),
      Op("I", 1, Iv("chr1", 2, 2, "+")),
      Op("M", 0, Iv("chr2", 1, 1, "+")) }

\* CIGARs of at most two operations.
OverlapCigars ==
    { <<>> } \cup { <<a>> : a \in OverlapOps }
             \cup { <<a, b>> : a \in OverlapOps, b \in OverlapOps }

\* Operations of the mates of a pair; mate 2 lies on the "-" strand.
MateOps(strand) ==
    { Match("chr1", 0, 1, strand), Match("chr1", 1, 2, strand),
      Match("chr1", 2, 3, strand), Match("chr1", 3, 4, strand),
      Match("chr2", 0, 1, strand), Op("N", 1, Iv("chr1", 2, 3, strand)) }

OverlapUnitsSE ==
    { <<Rd(TRUE, FALSE, FALSE, 30, cg, bar \o nh)>> :
        cg \in OverlapCigars, nh \in { <<>>, <<Tag("NH", 2)>> },
        bar \in BarcodeFields }

\* Pairs with at least one aligned mate; NH, if any, is on both mates.
OverlapUnitsPE ==
    { <<Mate(k1, FALSE, FALSE, 30, <<a>>, BarXU \o nh),
        Mate(k2, FALSE, FALSE, 30, <<b>>, BarXU \o nh)>> :
        k1 \in {"N", "U", "A"}, k2 \in {"N", "U", "A"},
        a \in MateOps("+"), b \in MateOps("-"),
        nh \in { <<>>, <<Tag("NH", 2)>> } }
    \ { <<NoRead, NoRead>> }

OverlapUnits == IF pe_mode THEN OverlapUnitsPE ELSE OverlapUnitsSE

\* Every value of the stranded, overlap and multimapped modes; secondary and
\* supplementary alignments are scored.
OverlapConfigs ==
    { c \in Configs : /\ c.secondary_alignment_mode = "score"
                      /\ c.supplementary_alignment_mode = "score" }

\* samoutfile: no output file, or one opened by the setup (lines 95-106).
SamoutFiles == {None, "open"}

InitOverlap == InitWith(OverlapConfigs, BOOLEAN, SamoutFiles)

(* Inputs of the collapse: streams of single-end records that share and    *)
(* differ in cell and UMI and resolve to different categories.             *)

\* Longest input stream of the specification SpecCollapse.
MaxStream == 3

\* Barcodes of two cells; one record of cell X lacks the UMI.
CollapseBarcodes == { BarXU, BarXV, <<Tag(cb_tag, "X")>>, BarYU }

\* Alignments over GeneA, over GeneB, and over both.
CollapseCigars ==
    { <<Match("chr1", 1, 2, "+")>>, <<Match("chr1", 3, 4, "+")>>,
      <<Match("chr1", 2, 3, "+")>> }

\* Primary alignments with and without NH = 2, and one secondary alignment
\* per barcode.
CollapseUnits ==
    { <<Rd(TRUE, FALSE, FALSE, 30, cg, bar \o nh)>> :
        cg \in CollapseCigars, nh \in { <<>>, <<Tag("NH", 2)>> },
        bar \in CollapseBarcodes }
    \cup
    { <<Rd(TRUE, TRUE, FALSE, 30, <<Match("chr1", 1, 2, "+")>>, bar)>> :
        bar \in CollapseBarcodes }

\* Both multimapped modes; secondary alignments are ignored.
CollapseConfigs ==
    { c \in Configs : /\ c.stranded = "yes"
                      /\ c.overlap_mode = "union"
                      /\ c.multimapped_mode \in {"none", "all"}
                      /\ c.secondary_alignment_mode = "ignore"
                      /\ c.supplementary_alignment_mode = "score" }

InitCollapse == InitWith(CollapseConfigs, {FALSE}, {None})

(* Inputs of the barcode extraction: records and pairs that differ in     *)
(* their optional fields only.                                              *)

\* Longest list of optional fields of a read, and longest input stream, of
\* the specification SpecBarcodes.
MaxTags == 2
MaxTagged == 1

\* Optional fields: the cell tag with two values, the UMI tag, and a tag
\* that is no barcode.
TagChoices ==
    { Tag(cb_tag, "X"), Tag(cb_tag, "Y"), Tag(ub_tag, "U"), Tag("NH", 1) }

\* The lists of at most MaxTags optional fields, repeated keys included.
TagLists == UNION { [1..n -> TagChoices] : n \in 0..MaxTags }

BarcodeUnitsSE ==
    { <<Rd(TRUE, FALSE, FALSE, 30, Mate1Cigar, t)>> : t \in TagLists }

\* Pairs of which either mate may be absent.
BarcodeUnitsPE ==
    { <<m1, m2>> :
        m1 \in {NoRead} \cup { Rd(TRUE, FALSE, FALSE, 30, Mate1Cigar, t) :
                                  t \in TagLists },
        m2 \in {NoRead} \cup { Rd(TRUE, FALSE, FALSE, 30, Mate2Cigar, t) :
                                  t \in TagLists } }
    \ { <<NoRead, NoRead>> }

BarcodeUnits == IF pe_mode THEN BarcodeUnitsPE ELSE BarcodeUnitsSE

\* One configuration: every unit is resolved and counted.
BarcodeConfigs ==
    { c \in Configs : /\ c.stranded = "yes"
                      /\ c.overlap_mode = "union"
                      /\ c.multimapped_mode = "none"
                      /\ c.secondary_alignment_mode = "score"
                      /\ c.supplementary_alignment_mode = "score" }

InitBarcodes == InitWith(BarcodeConfigs, BOOLEAN, {None})

NextBarcodes == NextRecord(BarcodeUnits, MaxTagged) \/ Body \/ Collapse

SpecBarcodes == InitBarcodes /\ [][NextBarcodes]_vars

(* Inputs of the annotation output: the units of every exclusion rule and *)
(* of every final decision, with and without an output file.               *)

\* Longest input stream of the specification SpecEmit.
MaxEmitted == 2

\* Alignments over GeneA, over GeneA with GeneB, and over no feature.
EmitCigars ==
    { <<Match("chr1", 1, 2, "+")>>, <<Match("chr1", 2, 3, "+")>>,
      <<Match("chr1", 0, 1, "+")>> }

EmitUnitsSE ==
    { <<Rd(al, sec, sup, q, cg, BarXU \o nh)>> :
        al \in BOOLEAN, sec \in BOOLEAN, sup \in BOOLEAN, q \in AQuals,
        cg \in EmitCigars, nh \in { <<>>, <<Tag("NH", 2)>> } }

EmitUnitsPE == PairsFlags \cup PairsUnaligned

EmitUnits == IF pe_mode THEN EmitUnitsPE ELSE EmitUnitsSE

\* Both multimapped modes and both ways to handle secondary and
\* supplementary alignments.
EmitConfigs ==
    { c \in Configs : /\ c.stranded = "yes"
                      /\ c.overlap_mode = "union"
                      /\ c.multimapped_mode \in {"none", "all"} }

InitEmit == InitWith(EmitConfigs, BOOLEAN, SamoutFiles)

NextEmit == NextRecord(EmitUnits, MaxEmitted) \/ Body \/ Collapse

SpecEmit == InitEmit /\ [][NextEmit]_vars

NextCollapse == NextRecord(CollapseUnits, MaxStream) \/ Body \/ Collapse

SpecCollapse == InitCollapse /\ [][NextCollapse]_vars

NextOverlap == NextRecord(OverlapUnits, MaxResolved) \/ Body \/ Collapse

SpecOverlap == InitOverlap /\ [][NextOverlap]_vars

Next == NextRecord(Units, MaxUnits) \/ Body \/ Collapse

Spec == Init /\ [][Next]_vars

(* ------------------------ vocabulary of the properties ---------------- *)

\* The barcodes and categories that occur in the inputs.
Cells == {None, "X", "Y"}
Umis == {None, "U", "V"}
Categories == other_features \cup feature_attr

Count(tbl, cb, ub, cat) == CounterGet(Bucket(tbl, cb, ub), cat)

\* By how much a step raises one count.
Added(cb, ub, cat) == Count(counts', cb, ub, cat) - Count(counts, cb, ub, cat)

\* The (cell, umi, category) triples that hold a count in a table.
Keys(tbl) ==
    UNION { UNION { { <<cb, ub, tbl[cb][ub][j].k>> : j \in 1..Len(tbl[cb][ub]) }
                    : ub \in DOMAIN tbl[cb] }
            : cb \in DOMAIN tbl }

\* The counts a step changes.
Changed ==
    { x \in Keys(counts) \cup Keys(counts') : Added(x[1], x[2], x[3]) # 0 }

\* The step adds 1 to each category of S in bucket b and changes no other
\* count of the table.
ExactlyAdds(b, S) ==
    /\ Changed = { <<b[1], b[2], cat>> : cat \in S }
    /\ \A cat \in S : Added(b[1], b[2], cat) = 1

PresentMates(u) == { k \in 1..Len(u) : IsRead(u[k]) }

\* The conditions of the exclusion rules, as the classifier's rules state
\* them for a record or a pair.
IsNotAligned(u) == ~\E k \in PresentMates(u) : u[k].aligned

IsSecondaryIgnored(c, u) ==
    /\ c.secondary_alignment_mode = "ignore"
    /\ \E k \in PresentMates(u) : u[k].not_primary_alignment

IsSupplementaryIgnored(c, u) ==
    /\ c.supplementary_alignment_mode = "ignore"
    /\ \E k \in PresentMates(u) : u[k].supplementary

IsMultimapped(u) ==
    \E k \in PresentMates(u) :
        \E j \in 1..Len(u[k].optional_fields) :
            /\ u[k].optional_fields[j].tag = "NH"
            /\ u[k].optional_fields[j].val > 1

IsLowQuality(u) == \E k \in PresentMates(u) : u[k].aQual < minaqual

\* The earliest rule of the strict order that applies to a unit.
FirstRule(c, u) ==
    IF IsNotAligned(u) THEN "not_aligned"
    ELSE IF IsSecondaryIgnored(c, u) THEN "secondary"
    ELSE IF IsSupplementaryIgnored(c, u) THEN "supplementary"
    ELSE IF IsMultimapped(u) THEN "multimapped"
    ELSE IF IsLowQuality(u) THEN "low_quality"
    ELSE "overlap"

\* A step of the loop body under a configuration with known mode values.
BodyStep == pc = "body" /\ ValidModes(cfg)

(* --------------------------------- C1 --------------------------------- *)

\* The units counted so far for a barcode.
UnitsOf(b) == IF b \in DOMAIN nunits THEN nunits[b] ELSE 0

\* The barcodes that have a bucket or a counted unit.
KnownBarcodes ==
    DOMAIN nunits \cup
    UNION { { <<cb, ub>> : ub \in DOMAIN counts[cb] } : cb \in DOMAIN counts }

SumEqualsUnits ==
    \A b \in KnownBarcodes : CounterSum(Bucket(counts, b[1], b[2])) = UnitsOf(b)

SumAtLeastUnits ==
    \A b \in KnownBarcodes : CounterSum(Bucket(counts, b[1], b[2])) >= UnitsOf(b)

\* C1 (as stated): at every point of the scan, under multimapped-mode
\* 'none' and under 'all' alike, the counts of each (cell, umi) bucket sum
\* to the number of units with that barcode that the secondary /
\* supplementary filter did not drop.
C1_SumEqualsUnitsAllModes ==
    (pc = "read" /\ ValidModes(cfg)) => SumEqualsUnits

\* C1 (amended): the sum equals that number under multimapped-mode 'none';
\* under 'all' it is at least that number.
C1_SumEqualsUnitsNone ==
    (pc = "read" /\ ValidModes(cfg)) =>
        /\ cfg.multimapped_mode = "none" => SumEqualsUnits
        /\ cfg.multimapped_mode = "all" => SumAtLeastUnits

\* Under multimapped-mode 'none' two units of one barcode were counted in
\* the same bucket.
C1_Witness ==
    /\ pc = "read" /\ cfg.multimapped_mode = "none"
    /\ \E b \in DOMAIN nunits :
          /\ nunits[b] = 2
          /\ CounterSum(Bucket(counts, b[1], b[2])) = 2

(* --------------------------------- C2 --------------------------------- *)

\* C2: under multimapped-mode 'none' and a valid overlap mode, the body
\* step of a unit that is not dropped adds 1 to exactly one category of the
\* unit's own (cell, umi) bucket and changes no other count.
C2_OneIncrementNone ==
    [][(BodyStep /\ cfg.multimapped_mode = "none"
            /\ ~Discarded(cfg, pe_mode, r))
        => LET b == identify_barcodes(r)
           IN /\ Cardinality(Changed) = 1
              /\ \A x \in Changed : <<x[1], x[2]>> = b /\ Added(x[1], x[2], x[3]) = 1]_vars

\* Under 'none', two pairs were counted, each in a bucket of its own.
C2_Witness ==
    /\ pc = "read" /\ cfg.multimapped_mode = "none" /\ pe_mode
    /\ path = "resolved"
    /\ CounterSum(Bucket(counts, "X", "U")) = 1
    /\ CounterSum(Bucket(counts, None, None)) = 1

(* --------------------------------- C9 --------------------------------- *)

\* C9: the body step of an aligned unit that is secondary under
\* secondary-mode 'ignore', or supplementary under supplementary-mode
\* 'ignore' (for pairs: either present mate), leaves the count table as it
\* is: no count changes and no cell key or umi key is created.
C9_DiscardLeavesTable ==
    [][(BodyStep /\ ~IsNotAligned(r)
            /\ (IsSecondaryIgnored(cfg, r) \/ IsSupplementaryIgnored(cfg, r)))
        => counts' = counts]_vars

\* Two units were read: the first was counted, the second was dropped by
\* the filter and left no trace.
C9_Witness ==
    /\ pc = "read" /\ i = 2
    /\ path \in {"secondary", "supplementary"}
    /\ DOMAIN counts = {"X"}
    /\ DOMAIN nunits = { <<"X", "U">> } /\ nunits[<<"X", "U">>] = 1
    /\ CounterSum(Bucket(counts, "X", "U")) = 1

(* --------------------------------- C3 --------------------------------- *)

\* The effect that the earliest applicable rule has on the count table.
EffectOfFirstRule(c, u) ==
    LET b == identify_barcodes(u)
        rule == FirstRule(c, u)
    IN CASE rule = "not_aligned" -> ExactlyAdds(b, {not_aligned})
         [] rule \in {"secondary", "supplementary"} -> counts' = counts
         [] rule = "multimapped" ->
                IF c.multimapped_mode = "none"
                THEN ExactlyAdds(b, {alignment_not_unique})
                ELSE Added(b[1], b[2], alignment_not_unique) = 1
         [] rule = "low_quality" -> ExactlyAdds(b, {too_low_aQual})
         [] OTHER -> /\ Added(b[1], b[2], not_aligned) = 0
                     /\ Added(b[1], b[2], alignment_not_unique) = 0
                     /\ Added(b[1], b[2], too_low_aQual) = 0

\* C3: the exclusion rules apply in the strict order not_aligned,
\* secondary-ignored, supplementary-ignored, multimapped, low quality: the
\* body step of a record or pair has the outcome of the earliest rule whose
\* condition the unit satisfies, and under multimapped-mode 'none' no effect
\* of a later rule.
C3_StrictRuleOrder ==
    [][BodyStep => EffectOfFirstRule(cfg, r)]_vars

\* The same for single-end records only.
C3_StrictRuleOrderSE ==
    [][(BodyStep /\ ~pe_mode) => EffectOfFirstRule(cfg, r)]_vars

(* --------------------------------- C7 --------------------------------- *)

\* What a multimapped unit adds to its bucket b.
MultimappedEffect(c, u) ==
    LET b == identify_barcodes(u)
    IN /\ Added(b[1], b[2], alignment_not_unique) = 1
       /\ c.multimapped_mode = "none" => ExactlyAdds(b, {alignment_not_unique})
       /\ c.multimapped_mode = "all" =>
            IF IsLowQuality(u)
            THEN ExactlyAdds(b, {alignment_not_unique, too_low_aQual})
            ELSE /\ Added(b[1], b[2], too_low_aQual) = 0
                 /\ \E cat \in feature_attr \cup {no_feature} :
                        Added(b[1], b[2], cat) = 1

\* C7: the body step of an aligned unit that is not dropped and has NH > 1
\* adds exactly 1 to alignment_not_unique; under 'none' it adds nothing
\* else, under 'all' the increments of the quality check or of overlap
\* resolution come on top.
C7_MultimappedAudit ==
    [][(BodyStep /\ ~IsNotAligned(r) /\ ~Discarded(cfg, pe_mode, r)
            /\ IsMultimapped(r))
        => MultimappedEffect(cfg, r)]_vars

\* The same for single-end records only.
C7_MultimappedAuditSE ==
    [][(BodyStep /\ ~pe_mode /\ ~IsNotAligned(r)
            /\ ~Discarded(cfg, pe_mode, r) /\ IsMultimapped(r))
        => MultimappedEffect(cfg, r)]_vars

(* --------------------------------- C8 --------------------------------- *)

\* C8: for a pair that reaches the multimapped rule, the rule is triggered
\* (alignment_not_unique is incremented) whenever at least one present mate
\* reports NH > 1, whatever the other mate is.
C8_EitherMateTriggers ==
    [][(BodyStep /\ pe_mode /\ ~IsNotAligned(r)
            /\ ~Discarded(cfg, pe_mode, r) /\ IsMultimapped(r))
        => LET b == identify_barcodes(r)
           IN Added(b[1], b[2], alignment_not_unique) = 1]_vars

\* The cases of C8 in which mate 1 is absent, carries NH itself, or is not
\* the mate that lacks the tag.
C8_TriggersUnlessMate1LacksNH ==
    [][(BodyStep /\ pe_mode /\ ~IsNotAligned(r)
            /\ ~Discarded(cfg, pe_mode, r) /\ IsMultimapped(r)
            /\ (IsRead(r[1]) => HasField(r[1], "NH")))
        => LET b == identify_barcodes(r)
           IN Added(b[1], b[2], alignment_not_unique) = 1]_vars

(* ------------------------------ C6, C10 ------------------------------ *)

\* A unit that the classifier hands to overlap resolution.
ReachesOverlap(c, u) ==
    \/ FirstRule(c, u) = "overlap"
    \/ /\ FirstRule(c, u) = "multimapped"
       /\ c.multimapped_mode = "all"
       /\ ~IsLowQuality(u)

\* The audit increment that the multimapped rule made before overlap
\* resolution.
AuditBefore(u) == IF IsMultimapped(u) THEN {alignment_not_unique} ELSE {}

\* Some interval of the unit lies on a chromosome the index does not know.
HasUnknownChrom(u) ==
    \E k \in PresentMates(u) :
        /\ u[k].aligned
        /\ \E j \in 1..Len(u[k].cigar) :
              /\ u[k].cigar[j].type \in com
              /\ u[k].cigar[j].size > 0
              /\ u[k].cigar[j].ref_iv.chrom \notin chrom_vectors

\* C6: for a unit that reaches overlap resolution with resolved set result:
\* unset or empty adds exactly no_feature; one member adds exactly that
\* feature; several members add ambiguous under both multimapped modes, no
\* feature under 'none' and every member of result under 'all'.
C6_FinalDecision ==
    [][(BodyStep /\ ReachesOverlap(cfg, r))
        => LET b == identify_barcodes(r)
               res == Resolve(cfg.stranded, cfg.overlap_mode,
                              IvSeq(cfg, pe_mode, r))
               result == res.fs
               n == Cardinality(result.set)
           IN ~res.unknown =>
                ExactlyAdds(b, AuditBefore(r) \cup
                    (IF result.isNone \/ n = 0 THEN {no_feature}
                     ELSE IF n = 1 THEN result.set
                     ELSE IF cfg.multimapped_mode = "none" THEN {ambiguous}
                     ELSE {ambiguous} \cup result.set))]_vars

\* Under 'all' a unit resolved to GeneA and GeneB was audited as ambiguous
\* and counted for both features.
C6_Witness ==
    /\ pc = "read" /\ path = "resolved" /\ i = 1
    /\ cfg.multimapped_mode = "all"
    /\ \E cb \in DOMAIN counts : \E ub \in DOMAIN counts[cb] :
          /\ Count(counts, cb, ub, ambiguous) = 1
          /\ Count(counts, cb, ub, "GeneA") = 1
          /\ Count(counts, cb, ub, "GeneB") = 1
          /\ Len(counts[cb][ub]) = 3

\* C10: a unit that reaches overlap resolution and has an interval on an
\* unknown chromosome adds exactly one no_feature increment, no feature or
\* ambiguous increment, raises no fatal error, and the scan goes on to the
\* next unit, whatever earlier intervals returned and whatever the overlap
\* mode.
C10_UnknownChromIsNoFeature ==
    [][(BodyStep /\ ReachesOverlap(cfg, r) /\ HasUnknownChrom(r))
        => /\ ExactlyAdds(identify_barcodes(r),
                          AuditBefore(r) \cup {no_feature})
           /\ pc' = "read"]_vars

\* The UnknownChrom handler ran under an intersection mode, counted
\* no_feature and the scan is ready for the next unit.
C10_Witness ==
    /\ pc = "read" /\ path = "unknown_chrom" /\ i = 1
    /\ cfg.overlap_mode = "intersection-nonempty"
    /\ \E cb \in DOMAIN counts : \E ub \in DOMAIN counts[cb] :
          counts[cb][ub] = <<[k |-> no_feature, n |-> 1]>>

(* ------------------------------- C4, C5 ------------------------------- *)

\* The category of bucket b that holds the highest count and, among those
\* that share it, was inserted first during the scan.
FirstInsertedMax(b) ==
    LET seen == inserted[b]
        cnt(j) == Count(counts, b[1], b[2], seen[j])
        best == CHOOSE j \in 1..Len(seen) :
                    /\ \A m \in 1..Len(seen) : cnt(m) <= cnt(j)
                    /\ \A m \in 1..(j - 1) : cnt(m) < cnt(j)
    IN seen[best]

\* C4: the collapse assigns each (cell, umi) bucket to the category with
\* the highest count in it and, when several categories share the highest
\* count, to the one inserted first into that bucket during the scan.
C4_FirstInsertedWins ==
    [][(pc = "read" /\ pc' = "done")
        => /\ DOMAIN counts_noumi' = DOMAIN counts
           /\ \A cb \in DOMAIN counts : \A cat \in Categories :
                (IF cat \in DOMAIN counts_noumi'[cb]
                 THEN counts_noumi'[cb][cat] ELSE 0)
                = Cardinality({ ub \in DOMAIN counts[cb] :
                                  FirstInsertedMax(<<cb, ub>>) = cat })]_vars

\* Scenario D: two records of (X, U), the first resolved to GeneA and the
\* second to GeneB, collapsed to GeneA.
C4_Witness ==
    /\ pc = "done" /\ cfg.multimapped_mode = "none"
    /\ DOMAIN nunits = { <<"X", "U">> } /\ nunits[<<"X", "U">>] = 2
    /\ inserted[<<"X", "U">>] = <<"GeneA", "GeneB">>
    /\ DOMAIN counts_noumi["X"] = {"GeneA"}
    /\ counts_noumi["X"]["GeneA"] = 1

\* Sum of a collapsed cell.
RECURSIVE SumOver(_, _)
SumOver(f, keys) ==
    IF keys = {} THEN 0
    ELSE LET k == CHOOSE x \in keys : TRUE
         IN f[k] + SumOver(f, keys \ {k})

\* C5: after the collapse, the counts of each cell sum to the number of
\* distinct UMI values (None counting as one value) of the cell's units that
\* the secondary / supplementary filter did not drop, however many records
\* supported each UMI and under both multimapped modes.
C5_OnePerUmi ==
    (pc = "done" /\ ValidModes(cfg)) =>
        \A cb \in Cells :
            (IF cb \in DOMAIN counts_noumi
             THEN SumOver(counts_noumi[cb], DOMAIN counts_noumi[cb]) ELSE 0)
            = Cardinality({ ub \in Umis : <<cb, ub>> \in DOMAIN nunits })

\* Cell X was collapsed from three records: two of UMI U and one without a
\* UMI.
C5_Witness ==
    /\ pc = "done"
    /\ DOMAIN nunits = { <<"X", "U">>, <<"X", None>> }
    /\ nunits[<<"X", "U">>] = 2
    /\ SumOver(counts_noumi["X"], DOMAIN counts_noumi["X"]) = 2

(* --------------------------------- C11 -------------------------------- *)

\* C11: when the overlap mode or the multimapped mode has an unrecognized
\* value, the run ends in a fatal error before any unit is processed: no
\* count is incremented and nothing is written before the error, and the
\* run never completes.
C11_IllegalModeFailsFirst ==
    ~ValidModes(cfg) =>
        /\ counts = EmptyTable
        /\ written = <<>>
        /\ pc # "done"

(* --------------------------------- C12 -------------------------------- *)

\* The feature set the resolver yields for the intervals of a unit under an
\* overlap mode; an unset result reads as the empty set.
ResolvedUnder(mode, c, pe, u) ==
    Resolve(c.stranded, mode, IvSeq(c, pe, u)).fs.set

\* C12: for the interval sequence of every unit handed to the loop body,
\* the set resolved under intersection-strict is a subset of the set
\* resolved under intersection-nonempty, which is a subset of the set
\* resolved under union.
C12_Monotone ==
    pc = "body" =>
        /\ ResolvedUnder("intersection-strict", cfg, pe_mode, r)
             \subseteq ResolvedUnder("intersection-nonempty", cfg, pe_mode, r)
        /\ ResolvedUnder("intersection-nonempty", cfg, pe_mode, r)
             \subseteq ResolvedUnder("union", cfg, pe_mode, r)

\* The body runs for a record whose intervals cover a stretch without a
\* feature, GeneA alone and GeneA with GeneB: the three modes give three
\* different sets.
C12_Witness ==
    /\ pc = "body"
    /\ ResolvedUnder("intersection-strict", cfg, pe_mode, r) = {}
    /\ ResolvedUnder("intersection-nonempty", cfg, pe_mode, r) = {"GeneA"}
    /\ ResolvedUnder("union", cfg, pe_mode, r) = {"GeneA", "GeneB"}

(* --------------------------------- C13 -------------------------------- *)

\* The feature sets of all sub-intervals that the index returns for the
\* intervals of a unit.
RECURSIVE AllSteps(_, _)
AllSteps(stranded, ivs) ==
    IF ivs = <<>> THEN <<>>
    ELSE steps(stranded, Head(ivs)) \o AllSteps(stranded, Tail(ivs))

SubintervalSets(stranded, ivs) ==
    { AllSteps(stranded, ivs)[j] : j \in 1..Len(AllSteps(stranded, ivs)) }

\* The members common to every set of a non-empty family.
Intersection(F) == { x \in UNION F : \A S \in F : x \in S }

AllKnown(ivs) == \A j \in 1..Len(ivs) : ivs[j].chrom \in chrom_vectors

\* The result each overlap mode is to give for a family of sub-interval
\* sets; without any set to fold, the intersection modes leave the result
\* unset.
ExpectedResult(overlap_mode, F) ==
    IF overlap_mode = "union" THEN FsSet(UNION F)
    ELSE IF overlap_mode = "intersection-strict"
    THEN IF F = {} THEN FsNone ELSE FsSet(Intersection(F))
    ELSE IF F \ {{}} = {} THEN FsNone ELSE FsSet(Intersection(F \ {{}}))

\* C13: when every chromosome of the unit's intervals is known, the
\* resolver's result is, under union, the union of all sub-interval sets;
\* under intersection-strict, the intersection of all of them, the empty
\* ones included; under intersection-nonempty, the intersection of the
\* non-empty ones, and unset when there is none.
C13_ResolverResult ==
    (pc = "body" /\ cfg.overlap_mode # "illegal"
        /\ AllKnown(IvSeq(cfg, pe_mode, r)))
    => Resolve(cfg.stranded, cfg.overlap_mode, IvSeq(cfg, pe_mode, r)).fs
       = ExpectedResult(cfg.overlap_mode,
                        SubintervalSets(cfg.stranded, IvSeq(cfg, pe_mode, r)))

\* Under intersection-strict the body runs for a record with sub-intervals
\* over no feature, over GeneA and over GeneA with GeneB: the empty set
\* makes the result empty.
C13_Witness ==
    /\ pc = "body" /\ cfg.overlap_mode = "intersection-strict"
    /\ SubintervalSets(cfg.stranded, IvSeq(cfg, pe_mode, r))
         = { {}, {"GeneA"}, {"GeneA", "GeneB"} }
    /\ Resolve(cfg.stranded, cfg.overlap_mode, IvSeq(cfg, pe_mode, r)).fs
         = FsSet({})

(* --------------------------------- C14 -------------------------------- *)

\* The values that the present reads of a unit carry under a tag.
Carried(u, tag) ==
    UNION { { u[k].optional_fields[j].val :
                j \in { m \in 1..Len(u[k].optional_fields) :
                          u[k].optional_fields[m].tag = tag } }
            : k \in PresentMates(u) }

\* A barcode component is a value carried under its tag, and None only when
\* no present read carries the tag.
ComponentFound(x, u, tag) ==
    IF Carried(u, tag) = {} THEN x = None ELSE x \in Carried(u, tag)

\* Some tag key of the two barcode tags occurs more than once in the unit.
RepeatsBarcodeTag(u) ==
    \E tag \in {cb_tag, ub_tag} :
        Cardinality(UNION { { <<k, j>> :
                                j \in { m \in 1..Len(u[k].optional_fields) :
                                          u[k].optional_fields[m].tag = tag } }
                            : k \in PresentMates(u) }) > 1

\* C14: for every unit, barcode extraction returns the cell-tag value if a
\* present mate carries the cell tag and the UMI-tag value if a present
\* mate carries the UMI tag; a component is None only when no present mate
\* carries that tag, also when a tag key occurs on both mates or more than
\* once in a tag list.
C14_BarcodesFound ==
    pc = "body" =>
        /\ ComponentFound(identify_barcodes(r)[1], r, cb_tag)
        /\ ComponentFound(identify_barcodes(r)[2], r, ub_tag)

\* The same for the units in which no barcode tag key is repeated.
C14_BarcodesFoundNoRepeat ==
    (pc = "body" /\ ~RepeatsBarcodeTag(r)) =>
        /\ ComponentFound(identify_barcodes(r)[1], r, cb_tag)
        /\ ComponentFound(identify_barcodes(r)[2], r, ub_tag)

(* --------------------------------- C15 -------------------------------- *)

IsMatchOp(co) == co.type \in {"M", "=", "X"} /\ co.size > 0

Flipped(iv) == [iv EXCEPT !.strand = IF @ = "+" THEN "-" ELSE "+"]

\* The reference intervals of the matching operations of size > 0 of a
\* read, in order, inverted when inv holds; none for a mate that is absent
\* or not aligned.
MatchIntervals(read, inv) ==
    IF ~IsRead(read) \/ ~read.aligned THEN <<>>
    ELSE LET ops == SelectSeq(read.cigar, IsMatchOp)
         IN [j \in 1..Len(ops) |->
                IF inv THEN Flipped(ops[j].ref_iv) ELSE ops[j].ref_iv]

\* C15: the interval sequence handed to the overlap resolver consists of
\* the reference intervals of the matching operations of size > 0; those of
\* a single-end record and of mate 1 are inverted iff stranded is
\* "reverse", those of mate 2 iff stranded is not "reverse"; an absent or
\* unaligned mate contributes none, and a pair without an aligned mate is
\* counted as not_aligned.
C15_IntervalSequence ==
    [][pc = "body" =>
        /\ IvSeq(cfg, pe_mode, r) =
             IF pe_mode
             THEN MatchIntervals(r[1], cfg.stranded = "reverse")
                  \o MatchIntervals(r[2], cfg.stranded # "reverse")
             ELSE MatchIntervals(r[1], cfg.stranded = "reverse")
        /\ (pe_mode /\ IsNotAligned(r)) =>
             /\ path' = "not_aligned"
             /\ ExactlyAdds(identify_barcodes(r), {not_aligned})]_vars

\* Under stranded "reverse" the body runs for a pair of aligned mates:
\* mate 1 ("+") is inverted, mate 2 ("-") is not.
C15_Witness ==
    /\ pc = "body" /\ pe_mode /\ cfg.stranded = "reverse"
    /\ IsRead(r[1]) /\ r[1].aligned /\ IsRead(r[2]) /\ r[2].aligned
    /\ Len(IvSeq(cfg, pe_mode, r)) = 2
    /\ IvSeq(cfg, pe_mode, r)[1].strand = "-"
    /\ IvSeq(cfg, pe_mode, r)[2].strand = "-"

(* ------------------------------ C16, C17 ------------------------------ *)

\* The XF value written for a unit resolved to several features.
AmbiguousTag(order) == "__ambiguous[" \o Join(order) \o "]"

\* The feature lists that can stand in such a value.
FeatureLists ==
    UNION { ListsOf(S) : S \in { T \in SUBSET feature_attr : Cardinality(T) > 1 } }

\* The category that an XF value stands for.
CategoryOf(xf) ==
    IF \E l \in FeatureLists : xf = AmbiguousTag(l) THEN ambiguous ELSE xf

\* The categories that a step increments.
Incremented == { x[3] : x \in Changed }

\* A step of the loop body with an output file.
EmitStep == BodyStep /\ samoutfile # None

\* C16: with an output file, every unit of the stream is written exactly
\* once, with the category it was assigned to, in every configuration:
\* also under secondary / supplementary mode 'ignore' and under
\* multimapped-mode 'all'.
C16_EmittedOnce ==
    [][EmitStep =>
        /\ Len(written') = 1
        /\ CategoryOf(written'[1].XF) \in Incremented]_vars

\* The same for the units that the secondary / supplementary filter does
\* not drop, under multimapped-mode 'none'.
C16_EmittedOnceCountedNone ==
    [][(EmitStep /\ ~Discarded(cfg, pe_mode, r)
            /\ cfg.multimapped_mode = "none") =>
        /\ Len(written') = 1
        /\ Incremented = { CategoryOf(written'[1].XF) }]_vars

\* The XF values written for the unit of a step.
WrittenTags == { written'[j].XF : j \in 1..Len(written') }

\* C17 (as stated): with an output file, every increment of a category c
\* that the body step of a unit makes is matched by a write of that unit
\* tagged with c within the same step; this covers the exclusion
\* categories and the feature ids, under both multimapped modes.
C17_IncrementsEmitted ==
    [][EmitStep =>
        \A c \in Incremented : \E xf \in WrittenTags : CategoryOf(xf) = c]_vars

\* C17 (amended): every increment is matched by a write tagged with its
\* category, except the feature increments that multimapped-mode 'all'
\* makes for a unit resolved to several features: these are matched by the
\* one write tagged ambiguous, whose value names each of the features.
C17_IncrementsEmittedOrNamed ==
    [][EmitStep =>
        \A c \in Incremented :
            \/ \E xf \in WrittenTags : CategoryOf(xf) = c
            \/ /\ cfg.multimapped_mode = "all"
               /\ c \in feature_attr
               /\ ambiguous \in Incremented
               /\ \E l \in FeatureLists :
                     /\ AmbiguousTag(l) \in WrittenTags
                     /\ \E j \in 1..Len(l) : l[j] = c]_vars

\* Under 'all' a multimapped record over GeneA and GeneB was written as
\* not unique and as ambiguous, and counted for both and for each feature.
C17_Witness ==
    /\ pc = "read" /\ path = "resolved" /\ samoutfile = "open"
    /\ cfg.multimapped_mode = "all"
    /\ Len(written) = 2
    /\ written[1].XF = alignment_not_unique
    /\ written[2].XF \in { "__ambiguous[GeneA+GeneB]", "__ambiguous[GeneB+GeneA]" }
    /\ \E cb \in DOMAIN counts : \E ub \in DOMAIN counts[cb] :
          /\ Count(counts, cb, ub, alignment_not_unique) = 1
          /\ Count(counts, cb, ub, ambiguous) = 1
          /\ Count(counts, cb, ub, "GeneA") = 1
          /\ Count(counts, cb, ub, "GeneB") = 1

(* --------------------------------- C18 -------------------------------- *)

\* The step that ends the scan.
EndOfStream == pc = "read" /\ pc' \notin {"read", "body"}

\* C18: the collapse completes and returns a collapsed table for every
\* input stream, also when some counted units carry a cell tag and others
\* none: sorting the cell ids never aborts the run, and the units without a
\* cell tag make up one cell keyed by None.
C18_CollapseCompletes ==
    [][EndOfStream =>
        /\ pc' = "done"
        /\ DOMAIN counts_noumi' = DOMAIN counts
        /\ \A k \in 1..Len(cbs') : cbs'[k] \in DOMAIN counts]_vars

\* The same for the streams whose counted units all carry a cell tag or all
\* carry none.
C18_CollapseCompletesUnmixed ==
    [][(EndOfStream /\ ~(None \in DOMAIN counts /\ DOMAIN counts # {None})) =>
        /\ pc' = "done"
        /\ DOMAIN counts_noumi' = DOMAIN counts
        /\ \A k \in 1..Len(cbs') : cbs'[k] \in DOMAIN counts]_vars

(* --------------------------------- C19 -------------------------------- *)

\* C19: at every point of the scan, every cell of the count table holds a
\* bucket and every (cell, umi) bucket holds a category with a count of at
\* least 1, so the collapse finds a winning category for every bucket.
C19_NoEmptyBucket ==
    \A cb \in DOMAIN counts :
        /\ DOMAIN counts[cb] # {}
        /\ \A ub \in DOMAIN counts[cb] :
              \E j \in 1..Len(counts[cb][ub]) : counts[cb][ub][j].n >= 1

\* A record was counted for GeneA and a second one, of the same barcode,
\* was dropped as secondary: the table holds the one bucket of the first.
C19_Witness ==
    /\ pc = "read" /\ i = 2 /\ path = "secondary"
    /\ Keys(counts) = { <<"X", "U", "GeneA">> }
    /\ Count(counts, "X", "U", "GeneA") = 1

(* --------------------------------- C20 -------------------------------- *)

\* The category that the bucket of the unit of a step would collapse to if
\* the stream ended after the step.
CollapsesTo == LET b == identify_barcodes(r)
               IN most_common1(Bucket(counts', b[1], b[2]))

\* A step of the loop body, under multimapped-mode 'all', for a unit that
\* reaches overlap resolution and is the first of its (cell, umi).
OnlyUnitAll ==
    /\ BodyStep /\ cfg.multimapped_mode = "all"
    /\ ReachesOverlap(cfg, r) /\ ~HasUnknownChrom(r)
    /\ Bucket(counts, identify_barcodes(r)[1], identify_barcodes(r)[2]) = <<>>

\* The NH test of the loop body finds NH > 1.
NHTestFires == IF pe_mode THEN NHAbove1PE(r) ELSE NHAbove1SE(r[1])

\* C20: under multimapped-mode 'all' the audit category is inserted into
\* the bucket before the feature increments of the same unit: a (cell, umi)
\* whose only unit is multimapped (some present mate reports NH > 1) and
\* resolves to a single feature collapses to alignment_not_unique, and one
\* whose only unit is not multimapped and resolves to several features
\* collapses to ambiguous.
C20_AuditWins ==
    [][OnlyUnitAll =>
        LET n == Cardinality(ResolvedSet(cfg, IvSeq(cfg, pe_mode, r)))
        IN /\ (IsMultimapped(r) /\ n = 1) => CollapsesTo = alignment_not_unique
           /\ (~IsMultimapped(r) /\ n > 1) => CollapsesTo = ambiguous]_vars

\* What holds of the code: when the NH test fires, the bucket collapses to
\* alignment_not_unique whatever the unit resolves to; when it does not
\* and the unit resolves to several features, to ambiguous.
C20_AuditWinsAsTested ==
    [][OnlyUnitAll =>
        LET n == Cardinality(ResolvedSet(cfg, IvSeq(cfg, pe_mode, r)))
        IN /\ NHTestFires => CollapsesTo = alignment_not_unique
           /\ (~NHTestFires /\ n > 1) => CollapsesTo = ambiguous]_vars

\* The same for single-end records only.
C20_AuditWinsSE ==
    [][(OnlyUnitAll /\ ~pe_mode) =>
        LET n == Cardinality(ResolvedSet(cfg, IvSeq(cfg, pe_mode, r)))
        IN /\ (IsMultimapped(r) /\ n = 1) => CollapsesTo = alignment_not_unique
           /\ (~IsMultimapped(r) /\ n > 1) => CollapsesTo = ambiguous]_vars

TypeOK == pc \in {"read", "body", "done", "error"}

====
